---- MODULE Spec2Model ----
(***************************************************************************)
(* Scoring and classification engine of the contract analyser:             *)
(*   risk_calculator.py  calculate_risk_score, _calculate_grade            *)
(*   index.py            analyze_contract_risk,                            *)
(*                       analyze_power_balance_weighted                    *)
(*   power_analyzer.py   analyze_power_balance,                            *)
(*                       analyze_power_balance_chunked,                    *)
(*                       calculate_power_balance_weighted                  *)
(*                                                                         *)
(* Every entry point is a function of its arguments.  The state is the     *)
(* call in progress: its name, its arguments and what it returned or       *)
(* raised; between calls nothing is kept.                                  *)
(*                                                                         *)
(* Conventions                                                             *)
(*  - A Python dict is a function whose DOMAIN is its key set; d.get(k, v) *)
(*    is Get(d, k, v).                                                     *)
(*  - A raised exception is the value [raised |-> <exception name>].       *)
(*  - Korean text is written syllable by syllable in Revised Romanization  *)
(*    (the parser reads ASCII only): a text is a sequence of syllables,    *)
(*    " " is the blank.  Result labels are romanized the same way.         *)
(*  - Floats are scaled to integers: the multipliers of risk_calculator.py *)
(*    are in tenths, the weights of power_analyzer.py in halves, a ratio   *)
(*    is a pair num/den, a value rounded to two decimals is in hundredths. *)
(***************************************************************************)
EXTENDS Integers, Sequences, FiniteSets, TLC

\* call, args, result: the entry point called, the arguments as passed and
\*     the value returned
\* after:   the argument objects as the call leaves them
\* tables:  the module-level tables of risk_calculator.py and
\*          power_analyzer.py
\* earlier: a call the caller has kept to compare a later one with
VARIABLES call, args, result, after, tables, earlier

vars == <<call, args, result, after, tables, earlier>>

---------------------------------------------------------------------------
(* Bounds of the inputs                                                    *)

\* The findings of one call
MaxFindings == 3

\* The items on one side of a weighted call
MaxItems == 2

\* The syllables of a text before its pad
MaxTextLen == 4

\* The chunk sizes tried on the short texts
MaxChunkSize == 3
MaxCount == 70
MaxEmployerCount == 12
MaxEmployeeCount == 36
LargeEmployerCount == 44
LargeChunkSize == 2000
MaxDelegations == 3
MaxIndicators == 12
MaxScale == 3

---------------------------------------------------------------------------
(* Python helpers                                                          *)

\* dict.get(k, default)
Get(d, k, default) == IF k \in DOMAIN d THEN d[k] ELSE default

\* {} : the empty dict
EmptyDict == [k \in {} |-> 0]

\* d[k] = v on a dict (insert or overwrite)
DictSet(d, k, v) == [x \in DOMAIN d \cup {k} |-> IF x = k THEN v ELSE d[x]]

\* raise <name>
Raise(name) == [raised |-> name]

Raised(r) == DOMAIN r = {"raised"}

\* min(a, b)
Min(a, b) == IF a < b THEN a ELSE b

---------------------------------------------------------------------------
(* risk_calculator.py                                                      *)

RISK_WEIGHTS ==
    [unilateral_termination |-> 30,
     excessive_damages      |-> 25,
     copyright_transfer     |-> 20,
     unclear_scope          |-> 15,
     payment_delay          |-> 10]

\* In tenths: 1.5, 1.2, 1.0, 0.7
SEVERITY_MULTIPLIER ==
    [critical |-> 15, high |-> 12, medium |-> 10, low |-> 7]

GRADE_F == "F (maeu wiheom)"
GRADE_D == "D (wiheom)"
GRADE_C == "C (juui piryo)"
GRADE_B == "B (botong)"
GRADE_A == "A (anjeon)"

\* The branches in the wrong order: the lowest threshold is tried first.
_calculate_grade_unordered(score) ==
    IF score >= 20 THEN GRADE_B
    ELSE IF score >= 40 THEN GRADE_C
    ELSE IF score >= 60 THEN GRADE_D
    ELSE IF score >= 80 THEN GRADE_F
    ELSE GRADE_A

\* Every threshold compared with > where the code has >=
_calculate_grade_strict(score) ==
    IF score > 80 THEN GRADE_F
    ELSE IF score > 60 THEN GRADE_D
    ELSE IF score > 40 THEN GRADE_C
    ELSE IF score > 20 THEN GRADE_B
    ELSE GRADE_A

\* Lines 101-112
_calculate_grade(score) ==
    IF score >= 80 THEN GRADE_F
    ELSE IF score >= 60 THEN GRADE_D
    ELSE IF score >= 40 THEN GRADE_C
    ELSE IF score >= 20 THEN GRADE_B
    ELSE GRADE_A

\* The mutants of impact_score: the multiplier truncated before the product
\* (int(multiplier) * base_weight); a missing severity read as "low"; the
\* multiplier table read upside down.
impact_score_truncated_multiplier(finding) ==
    LET category == Get(finding, "category", "")
        severity == Get(finding, "severity", "medium")
        base_weight == Get(RISK_WEIGHTS, category, 10)
        multiplier == Get(SEVERITY_MULTIPLIER, severity, 10)
    IN  base_weight * (multiplier \div 10)

impact_score_default_low(finding) ==
    LET category == Get(finding, "category", "")
        severity == Get(finding, "severity", "low")
        base_weight == Get(RISK_WEIGHTS, category, 10)
        multiplier == Get(SEVERITY_MULTIPLIER, severity, 10)
    IN  (base_weight * multiplier) \div 10

impact_score_inverted(finding) ==
    LET category == Get(finding, "category", "")
        severity == Get(finding, "severity", "medium")
        base_weight == Get(RISK_WEIGHTS, category, 10)
        multiplier == 22 - Get(SEVERITY_MULTIPLIER, severity, 12)
    IN  (base_weight * multiplier) \div 10

\* Lines 64-74: int(base_weight * multiplier); the product is never
\* negative, so int() is the floor.
impact_score(finding) ==
    LET category == Get(finding, "category", "")
        severity == Get(finding, "severity", "medium")
        base_weight == Get(RISK_WEIGHTS, category, 10)
        multiplier == Get(SEVERITY_MULTIPLIER, severity, 10)
    IN  (base_weight * multiplier) \div 10

\* Lines 78-81 with the accumulation lost: the category's score is
\* overwritten.
AccumulateCategory_overwrite(category_scores, category, impact) ==
    DictSet(category_scores, category, impact)

\* Lines 78-81
AccumulateCategory(category_scores, category, impact) ==
    IF category \in DOMAIN category_scores
    THEN DictSet(category_scores, category, category_scores[category] + impact)
    ELSE DictSet(category_scores, category, impact)

\* Lines 84-86: finding.copy() with impact_score set
WithImpact(finding, impact) == DictSet(finding, "impact_score", impact)

\* Lines 63-86: the loop body, on the accumulators of lines 59-61
RiskStep(acc, finding) ==
    LET impact == impact_score(finding)
    IN  [total_score          |-> acc.total_score + impact,
         category_scores      |->
             AccumulateCategory(acc.category_scores,
                                Get(finding, "category", ""), impact),
         findings_with_impact |->
             Append(acc.findings_with_impact, WithImpact(finding, impact))]

\* Lines 59-86: the loop over the first n findings
RECURSIVE RiskLoop(_, _)
RiskLoop(findings, n) ==
    IF n = 0
    THEN [total_score |-> 0, category_scores |-> EmptyDict,
          findings_with_impact |-> <<>>]
    ELSE RiskStep(RiskLoop(findings, n - 1), findings[n])

\* Line 89 left out
CapTotal_uncapped(total_score) == total_score

\* Line 89
CapTotal(total_score) == Min(total_score, 100)

\* The empty list answered as analyze_power_balance answers an empty text
EmptyRiskResult_error == [error |-> "no findings"]

\* Lines 52-57
EmptyRiskResult ==
    [total_score          |-> 0,
     grade                |-> GRADE_A,
     category_scores      |-> EmptyDict,
     findings_with_impact |-> <<>>]

\* Lines 27-99
calculate_risk_score(findings) ==
    IF findings = <<>>
    THEN EmptyRiskResult
    ELSE LET acc == RiskLoop(findings, Len(findings))
             total_score == CapTotal(acc.total_score)
         IN  [total_score          |-> total_score,
              grade                |-> _calculate_grade(total_score),
              category_scores      |-> acc.category_scores,
              findings_with_impact |-> acc.findings_with_impact]

---------------------------------------------------------------------------
(* index.py: analyze_contract_risk                                         *)

\* Lines 8-13
RISK_SEVERITY_WEIGHTS ==
    [critical |-> 10, high |-> 7, medium |-> 4, low |-> 2]

\* Lines 15-21
CATEGORY_NAMES ==
    [unilateral_termination |-> "ilbangjeok gyeyak haeji",
     excessive_damages      |-> "gwadohan sonhaebaesang",
     copyright_transfer     |-> "jeojakgwon jeonmyeon ijeon",
     unclear_scope          |-> "bulmyeonghwakhan eommu beomwi",
     payment_delay          |-> "daegeum jigeup jiyeon"]

\* Lines 24-26
ContractRiskStart ==
    [total_score     |-> 0,
     category_counts |-> EmptyDict,
     severity_counts |-> [critical |-> 0, high |-> 0, medium |-> 0, low |-> 0]]

\* Lines 28-39: the loop body.  severity_counts[severity] += 1 reads the
\* count first: a severity that is no key of severity_counts raises KeyError,
\* which ends the call.
ContractRiskStep(acc, finding) ==
    LET severity == Get(finding, "severity", "low")
        category == Get(finding, "category", "")
    IN  IF Raised(acc) THEN acc
        ELSE IF severity \notin DOMAIN acc.severity_counts
        THEN Raise("KeyError")
        ELSE [total_score     |->
                  acc.total_score + Get(RISK_SEVERITY_WEIGHTS, severity, 0),
              category_counts |->
                  DictSet(acc.category_counts, category,
                          Get(acc.category_counts, category, 0) + 1),
              severity_counts |->
                  DictSet(acc.severity_counts, severity,
                          acc.severity_counts[severity] + 1)]

RECURSIVE ContractRiskLoop(_, _)
ContractRiskLoop(findings, n) ==
    IF n = 0 THEN ContractRiskStart
    ELSE ContractRiskStep(ContractRiskLoop(findings, n - 1), findings[n])

\* Lines 42-53: <<risk_level, risk_color>>
RiskLevel(total_score) ==
    IF total_score >= 30 THEN <<"maeu wiheom", "red">>
    ELSE IF total_score >= 20 THEN <<"wiheom", "orange">>
    ELSE IF total_score >= 10 THEN <<"juui", "yellow">>
    ELSE <<"yangho", "green">>

\* Lines 63-67: the three entries, None where the condition fails
RiskRecommendations(total_score, severity_counts) ==
    << IF total_score >= 20
       THEN "jeonmungawa gyeyakseo geomtoreul gwonjanghamnida."
       ELSE "gyeyak chegyeol jeon sinjunghan geomtoga piryohamnida.",
       IF severity_counts["critical"] > 0
       THEN "bullihan johange daehae sujeongeul yocheonghaseyo."
       ELSE "None",
       IF total_score >= 30
       THEN "gyeyakseo jakseong si beomnyul jamuneul banneun geoseul goryeohaseyo."
       ELSE "None" >>

\* Lines 4-68
analyze_contract_risk(findings) ==
    LET acc == ContractRiskLoop(findings, Len(findings))
    IN  IF Raised(acc) THEN acc
        ELSE [total_score     |-> acc.total_score,
              risk_level      |-> RiskLevel(acc.total_score)[1],
              risk_color      |-> RiskLevel(acc.total_score)[2],
              findings_count  |-> Len(findings),
              severity_counts |-> acc.severity_counts,
              category_counts |-> acc.category_counts,
              category_names  |-> CATEGORY_NAMES,
              recommendations |->
                  RiskRecommendations(acc.total_score, acc.severity_counts)]

---------------------------------------------------------------------------
(* Rounding.  Python rounds the float; the integer forms below round the   *)
(* exact quotient to the nearest value, a tie to the even one.  The two    *)
(* agree for every quotient whose reduced denominator is below 40, which   *)
(* covers every quotient the bounded inputs produce.                       *)

\* round(num / den) for num >= 0, den > 0
RoundHalfEven(num, den) ==
    LET q == num \div den
        r == num % den
    IN  IF 2 * r < den THEN q
        ELSE IF 2 * r > den THEN q + 1
        ELSE IF q % 2 = 0 THEN q ELSE q + 1

\* round(ratio, 2), in hundredths
Round2(ratio) == RoundHalfEven(100 * ratio.num, ratio.den)

---------------------------------------------------------------------------
(* power_analyzer.py: levels, recommendations, the weighted variant        *)

\* The thresholds with ">=" where lines 222-228 have ">", and ">" where line
\* 230 has ">="
_determine_power_level_inclusive(ratio) ==
    IF ratio.num >= 3 * ratio.den
    THEN <<"gap jeoldaeuwi (geukdoro bulgongjeong)", 10>>
    ELSE IF ratio.num >= 2 * ratio.den
    THEN <<"gap uwi (maeu bulgongjeong)", 30>>
    ELSE IF 2 * ratio.num >= 3 * ratio.den
    THEN <<"gap uwi (bulgongjeong)", 50>>
    ELSE IF 5 * ratio.num >= 6 * ratio.den THEN <<"yakgan gap uwi", 70>>
    ELSE IF 5 * ratio.num > 4 * ratio.den THEN <<"gyunhyeongjeok", 90>>
    ELSE <<"eul uwi (deumun gyeongu)", 95>>

\* Lines 220-233: <<power_level, fairness_score>>; ratio is num / den
_determine_power_level(ratio) ==
    IF ratio.num > 3 * ratio.den
    THEN <<"gap jeoldaeuwi (geukdoro bulgongjeong)", 10>>
    ELSE IF ratio.num > 2 * ratio.den
    THEN <<"gap uwi (maeu bulgongjeong)", 30>>
    ELSE IF 2 * ratio.num > 3 * ratio.den
    THEN <<"gap uwi (bulgongjeong)", 50>>
    ELSE IF 5 * ratio.num > 6 * ratio.den
    THEN <<"yakgan gap uwi", 70>>
    ELSE IF 5 * ratio.num >= 4 * ratio.den
    THEN <<"gyunhyeongjeok", 90>>
    ELSE <<"eul uwi (deumun gyeongu)", 95>>

\* The tiers with one message each and none for the tier of line 251
TierRecommendations_silent_review(ratio) ==
    IF 2 * ratio.num > 5 * ratio.den
    THEN << <<"[gingeup] i gyeyakseoneun geukdoro bulgongjeonghamnida.">> >>
    ELSE IF ratio.num > 2 * ratio.den
    THEN << <<"[juui] gyeyakseoga sangdanghi bulgongjeonghamnida.">> >>
    ELSE IF 2 * ratio.num > 3 * ratio.den
    THEN <<>>
    ELSE << <<"[anjeon] bigyojeok gyunhyeongjapin gyeyakseoimnida.">> >>

\* Lines 239-258: the messages of the ratio tier.  A message is the sequence
\* of the pieces of its (f-)string.
TierRecommendations(ratio) ==
    IF 2 * ratio.num > 5 * ratio.den
    THEN << <<"[gingeup] i gyeyakseoneun geukdoro bulgongjeonghamnida.">>,
            <<"[jean] sangho haejigwon myeongsireul gangnyeokhi yocheonghaseyo">>,
            <<"[jean] sonhaebaesang sanghanseon seoljeongeul hyeobuihaseyo">>,
            <<"[jean] eommu beomwireul guchejeogeuro myeongsihal geoseul yoguhaseyo">> >>
    ELSE IF ratio.num > 2 * ratio.den
    THEN << <<"[juui] gyeyakseoga sangdanghi bulgongjeonghamnida.">>,
            <<"[jean] haeksim johang jaehyeopsangeul gwonjanghamnida">>,
            <<"[jean] ilbangjeok haejigwon johangeul sangho johangeuro byeongyeong yocheong">> >>
    ELSE IF 2 * ratio.num > 3 * ratio.den
    THEN << <<"[geomto] ilbu johang geomtoga piryohamnida.">>,
            <<"[jean] bullihan johang 2-3gaereul seontaekhae hyeopsanghaseyo">> >>
    ELSE << <<"[anjeon] bigyojeok gyunhyeongjapin gyeyakseoimnida.">> >>

\* The warning with ">= 30" where line 260 has "> 30"
TooManyObligations_from_thirty(employee_count) ==
    IF employee_count >= 30
    THEN << <<"[gyeonggo] eurui uimuga ", employee_count,
              "gaero gwadahamnida. haeksim uimuman namgigo sakje hyeobuihaseyo.">> >>
    ELSE <<>>

\* Lines 260-263
TooManyObligations(employee_count) ==
    IF employee_count > 30
    THEN << <<"[gyeonggo] eurui uimuga ", employee_count,
              "gaero gwadahamnida. haeksim uimuman namgigo sakje hyeobuihaseyo.">> >>
    ELSE <<>>

\* Lines 265-268
TooFewEmployerItems(employer_count, employee_count) ==
    IF employer_count < 5 /\ employee_count > 10
    THEN << <<"[gyeonggo] gabui uimuga ", employer_count,
              "gaero neomu jeokseumnida. sangho uimu johang chugareul yocheonghaseyo.">> >>
    ELSE <<>>

\* Lines 235-270
_generate_recommendations(ratio, employer_count, employee_count) ==
    TierRecommendations(ratio)
        \o TooManyObligations(employee_count)
        \o TooFewEmployerItems(employer_count, employee_count)

\* Lines 157-162, in halves: 3.0, 2.0, 1.0, 0.5
POWER_SEVERITY_WEIGHTS ==
    [critical |-> 6, high |-> 4, medium |-> 2, low |-> 1]

\* Every item weighing 1.0 whatever its severity, in halves
ItemWeight_unweighted(item) == 2

\* Lines 166 and 171: severity_weights.get(item.get("severity", "medium"), 1.0),
\* in halves
ItemWeight(item) ==
    Get(POWER_SEVERITY_WEIGHTS, Get(item, "severity", "medium"), 2)

\* Lines 165-173: the weighted sum of the first n items, in halves
RECURSIVE WeightedSum(_, _)
WeightedSum(items, n) ==
    IF n = 0 THEN 0 ELSE WeightedSum(items, n - 1) + ItemWeight(items[n])

\* Lines 210-212 and 214-216: the counts of one side
RECURSIVE SeverityBreakdownOf(_, _)
SeverityBreakdownOf(items, n) ==
    IF n = 0 THEN [critical |-> 0, high |-> 0, medium |-> 0, low |-> 0]
    ELSE LET before == SeverityBreakdownOf(items, n - 1)
             severity == Get(items[n], "severity", "medium")
         IN  DictSet(before, severity, Get(before, severity, 0) + 1)

\* Lines 203-218
_analyze_severity_breakdown(employer_items, employee_items) ==
    [employer |-> SeverityBreakdownOf(employer_items, Len(employer_items)),
     employee |-> SeverityBreakdownOf(employee_items, Len(employee_items))]

\* Lines 180-183: the weighted sums are in halves, so employee_weighted is
\* employee2 / 2
WeightedRatio(employer2, employee2) ==
    IF employer2 = 0
    THEN [num |-> employee2, den |-> 2]
    ELSE [num |-> employee2, den |-> employer2]

\* Lines 145-201.  The weighted scores are multiples of 0.5, which round(x, 1)
\* leaves as they are; they are returned in tenths.
calculate_power_balance_weighted(employer_items, employee_items) ==
    LET employer_weighted == WeightedSum(employer_items, Len(employer_items))
        employee_weighted == WeightedSum(employee_items, Len(employee_items))
        employer_count == Len(employer_items)
        employee_count == Len(employee_items)
        balance_ratio == WeightedRatio(employer_weighted, employee_weighted)
        level == _determine_power_level(balance_ratio)
    IN  [balance_ratio              |-> Round2(balance_ratio),
         power_level                |-> level[1],
         employer_rights_count      |-> employer_count,
         employee_obligations_count |-> employee_count,
         employer_weighted_score    |-> 5 * employer_weighted,
         employee_weighted_score    |-> 5 * employee_weighted,
         fairness_score             |-> level[2],
         recommendations            |->
             _generate_recommendations(balance_ratio, employer_count,
                                       employee_count),
         severity_breakdown         |->
             _analyze_severity_breakdown(employer_items, employee_items)]

---------------------------------------------------------------------------
(* power_analyzer.py: the keyword matcher and the chunker                  *)
(*                                                                         *)
(* A text is [body, pad]: the syllables of body followed by pad copies of  *)
(* the syllable "gye", which is no blank, no article marker and part of no *)
(* keyword.  The pad makes texts longer than the thresholds 500 and 1000.  *)

\* Lines 9-13
EMPLOYER_RIGHTS_KEYWORDS ==
    << <<"hae", "ji", "hal", " ", "su", " ", "iss", "da">>,
       <<"byeon", "gyeong", "hal", " ", "su", " ", "iss", "da">>,
       <<"yo", "gu", "hal", " ", "su", " ", "iss", "da">>,
       <<"gyeol", "jeong", "han", "da">>,
       <<"ji", "si", "han", "da">>,
       <<"seung", "in">>,
       <<"geo", "bu", "hal", " ", "su", " ", "iss", "da">>,
       <<"jung", "dan", "hal", " ", "su", " ", "iss", "da">>,
       <<"yo", "cheong", "hal", " ", "su", " ", "iss", "da">> >>

\* Lines 15-19
EMPLOYEE_OBLIGATIONS_KEYWORDS ==
    << <<"ha", "yeo", "ya", " ", "han", "da">>,
       <<"ui", "mu", "reul", " ", "jin", "da">>,
       <<"chaek", "im", "eul", " ", "jin", "da">>,
       <<"bae", "sang">>,
       <<"geum", "ji">>,
       <<"je", "han">>,
       <<"seung", "in", "eul", " ", "bad", "a", "ya">>,
       <<"tong", "bo", "ha", "yeo", "ya">>,
       <<"jun", "su", "ha", "yeo", "ya">> >>

\* The threshold of line 35
LONG_TEXT == 1000

\* The default chunk_size of line 65
CHUNK_SIZE == 500

\* len(text)
TextLen(text) == Len(text.body) + text.pad

\* c in text, for a syllable c other than the pad's
Contains(text, c) == \E i \in DOMAIN text.body : text.body[i] = c

\* str.count(keyword) from position i on: the occurrences that do not
\* overlap, found from the left
RECURSIVE CountFrom(_, _, _)
CountFrom(s, keyword, i) ==
    IF i + Len(keyword) - 1 > Len(s) THEN 0
    ELSE IF SubSeq(s, i, i + Len(keyword) - 1) = keyword
    THEN 1 + CountFrom(s, keyword, i + Len(keyword))
    ELSE CountFrom(s, keyword, i + 1)

\* sum(text.count(keyword) for keyword in keywords), over the first n keywords.
\* No keyword holds the pad's syllable, so every occurrence lies in the body.
RECURSIVE KeywordCount(_, _, _)
KeywordCount(text, keywords, n) ==
    IF n = 0 THEN 0
    ELSE KeywordCount(text, keywords, n - 1)
             + CountFrom(text.body, keywords[n], 1)

\* Lines 38-41 and 93
EmployerCount(text) ==
    KeywordCount(text, EMPLOYER_RIGHTS_KEYWORDS, Len(EMPLOYER_RIGHTS_KEYWORDS))

\* Lines 43-46 and 94
EmployeeCount(text) ==
    KeywordCount(text, EMPLOYEE_OBLIGATIONS_KEYWORDS,
                 Len(EMPLOYEE_OBLIGATIONS_KEYWORDS))

\* str.split(sep) of a sequence of syllables: the pieces between the
\* separators, the empty ones included
RECURSIVE Split(_, _)
Split(s, sep) ==
    IF \A i \in DOMAIN s : s[i] # sep THEN <<s>>
    ELSE LET first == CHOOSE i \in DOMAIN s :
                          s[i] = sep /\ \A j \in 1..(i - 1) : s[j] # sep
         IN  <<SubSeq(s, 1, first - 1)>>
                 \o Split(SubSeq(s, first + 1, Len(s)), sep)

\* Line 81: contract_text.split("je"); the pad follows the last piece
ArticleChunks(text) ==
    LET pieces == Split(text.body, "je")
    IN  [k \in DOMAIN pieces |->
            [body |-> pieces[k],
             pad  |-> IF k = Len(pieces) THEN text.pad ELSE 0]]

\* text[i : i + size], i counted from 0
Slice(text, i, size) ==
    LET stop == Min(i + size, TextLen(text))
        body_stop == Min(stop, Len(text.body))
    IN  [body |-> SubSeq(text.body, i + 1, body_stop),
         pad  |-> IF stop > Len(text.body)
                  THEN stop - (IF i > Len(text.body) THEN i ELSE Len(text.body))
                  ELSE 0]

\* Line 84: [text[i:i+chunk_size] for i in range(0, len(text), chunk_size)]
FixedChunks(text, chunk_size) ==
    LET count == (TextLen(text) + chunk_size - 1) \div chunk_size
    IN  [k \in 1..count |-> Slice(text, (k - 1) * chunk_size, chunk_size)]

\* Line 90: not chunk.strip()
Blank(chunk) == chunk.pad = 0 /\ \A i \in DOMAIN chunk.body : chunk.body[i] = " "

\* The loop with "=" where lines 93-94 have "+=": the totals are those of
\* the last chunk that is not blank
ChunkTotals_last_chunk_only(chunks, n) ==
    LET kept == {k \in 1..n : ~Blank(chunks[k])}
    IN  IF kept = {} THEN [employer |-> 0, employee |-> 0]
        ELSE LET last == CHOOSE k \in kept : \A j \in kept : j <= k
             IN  [employer |-> EmployerCount(chunks[last]),
                  employee |-> EmployeeCount(chunks[last])]

\* Lines 86-97: the totals over the first n chunks
RECURSIVE ChunkTotals(_, _)
ChunkTotals(chunks, n) ==
    IF n = 0 THEN [employer |-> 0, employee |-> 0]
    ELSE LET before == ChunkTotals(chunks, n - 1)
         IN  IF Blank(chunks[n]) THEN before
             ELSE [employer |-> before.employer + EmployerCount(chunks[n]),
                   employee |-> before.employee + EmployeeCount(chunks[n])]

\* The ratio with 0 where lines 49, 100 and 129 have the employee count
CountRatio_zero_without_employer(employer_count, employee_count) ==
    IF employer_count = 0
    THEN [num |-> 0, den |-> 1]
    ELSE [num |-> employee_count, den |-> employer_count]

\* Lines 48-51, 99-102 and 128-131
CountRatio(employer_count, employee_count) ==
    IF employer_count = 0
    THEN [num |-> employee_count, den |-> 1]
    ELSE [num |-> employee_count, den |-> employer_count]

\* Lines 53-63 and 104-113: the result of the text-driven variants
BalanceResult(employer_count, employee_count) ==
    LET balance_ratio == CountRatio(employer_count, employee_count)
        level == _determine_power_level(balance_ratio)
    IN  [balance_ratio              |-> Round2(balance_ratio),
         power_level                |-> level[1],
         employer_rights_count      |-> employer_count,
         employee_obligations_count |-> employee_count,
         fairness_score             |-> level[2],
         recommendations            |->
             _generate_recommendations(balance_ratio, employer_count,
                                       employee_count)]

\* Lines 79-84
Chunks(contract_text, chunk_size) ==
    IF Contains(contract_text, "je") /\ Contains(contract_text, "jo")
    THEN ArticleChunks(contract_text)
    ELSE FixedChunks(contract_text, chunk_size)

RECURSIVE analyze_power_balance(_), analyze_power_balance_chunked(_, _)

\* Lines 21-63
analyze_power_balance(contract_text) ==
    IF TextLen(contract_text) = 0
    THEN [error |-> "gyeyakseo naeyongi eopseumnida"]
    ELSE IF TextLen(contract_text) > LONG_TEXT
    THEN analyze_power_balance_chunked(contract_text, CHUNK_SIZE)
    ELSE BalanceResult(EmployerCount(contract_text),
                       EmployeeCount(contract_text))

\* Lines 65-115
analyze_power_balance_chunked(contract_text, chunk_size) ==
    IF TextLen(contract_text) <= chunk_size
    THEN analyze_power_balance(contract_text)
    ELSE LET chunks == Chunks(contract_text, chunk_size)
             totals == ChunkTotals(chunks, Len(chunks))
         IN  BalanceResult(totals.employer, totals.employee)
                 @@ [processing_method |-> "chunked"]

\* The calls between the two functions, counted as they nest.  The count
\* stops above MaxDelegations.
RECURSIVE AnalyzeDelegations(_, _), ChunkedDelegations(_, _, _)

\* Line 36 handing the text over with a chunk size that holds all of it
AnalyzeDelegations_whole_text_chunk(contract_text, nested) ==
    IF nested > MaxDelegations \/ TextLen(contract_text) = 0 THEN nested
    ELSE IF TextLen(contract_text) > LONG_TEXT
    THEN ChunkedDelegations(contract_text, TextLen(contract_text), nested + 1)
    ELSE nested

\* Lines 31-36: the delegation of analyze_power_balance
AnalyzeDelegations(contract_text, nested) ==
    IF nested > MaxDelegations \/ TextLen(contract_text) = 0 THEN nested
    ELSE IF TextLen(contract_text) > LONG_TEXT
    THEN ChunkedDelegations(contract_text, CHUNK_SIZE, nested + 1)
    ELSE nested

\* Lines 75-76: the delegation of analyze_power_balance_chunked
ChunkedDelegations(contract_text, chunk_size, nested) ==
    IF nested > MaxDelegations THEN nested
    ELSE IF TextLen(contract_text) <= chunk_size
    THEN AnalyzeDelegations(contract_text, nested + 1)
    ELSE nested

\* Lines 117-143
calculate_power_balance_from_counts(employer_count, employee_count) ==
    BalanceResult(employer_count, employee_count)

---------------------------------------------------------------------------
(* index.py: analyze_power_balance_weighted                                *)

\* Lines 208-213
INDEX_SEVERITY_WEIGHTS ==
    [critical |-> 4, high |-> 3, medium |-> 2, low |-> 1]

\* Lines 216-217: severity_weights.get(item.get("severity", "medium"), 2)
IndexItemWeight(item) ==
    Get(INDEX_SEVERITY_WEIGHTS, Get(item, "severity", "medium"), 2)

RECURSIVE IndexWeightedSum(_, _)
IndexWeightedSum(items, n) ==
    IF n = 0 THEN 0
    ELSE IndexWeightedSum(items, n - 1) + IndexItemWeight(items[n])

RECURSIVE Gcd(_, _)
Gcd(a, b) == IF b = 0 THEN a ELSE Gcd(b, a % b)

\* round((employee / total) * 100) is round() of a double.  The exact value
\* lies half-way between two integers only for quotients that reduce to n/8,
\* n/40 or n/200.  The double product is that half-way value, and round()
\* takes it to the even neighbour, for all of them but two: (23 / 40) * 100
\* is the double 57.49999999999999, rounded to 57, and (109 / 200) * 100 is
\* the double 54.50000000000001, rounded to 55.  Float division is correctly
\* rounded, so k * 23 / (k * 40) is the same double as 23 / 40.
FloatProductBelowHalf == {<<23, 40>>}
FloatProductAboveHalf == {<<109, 200>>}

\* The percentage with the quotient truncated, as int() would give it
BalanceScore_truncated(employee, total) ==
    IF total = 0 THEN 50 ELSE (100 * employee) \div total

\* The percentage with no case for total = 0 but a quotient of 0
BalanceScore_zero_total_zero(employee, total) ==
    IF total = 0 THEN 0 ELSE RoundHalfEven(100 * employee, total)

\* The percentage of employee + 1 in total + 2
BalanceScore_smoothed(employee, total) ==
    RoundHalfEven(100 * (employee + 1), total + 2)

\* Lines 95-99, 136-139, 173-176 and 219-223
BalanceScore(employee, total) ==
    IF total = 0 THEN 50
    ELSE LET g == Gcd(employee, total)
             reduced == <<employee \div g, total \div g>>
         IN  IF reduced \in FloatProductBelowHalf
             THEN (100 * employee) \div total
             ELSE IF reduced \in FloatProductAboveHalf
             THEN (100 * employee) \div total + 1
             ELSE RoundHalfEven(100 * employee, total)

\* Lines 226-245: <<balance_level, balance_color, recommendation>>
WeightedBalanceLevel(balance_score) ==
    IF balance_score >= 70
    THEN <<"eurege maeu bulli", "red",
           "gyeyakseoe eurege gwadohage bullihan johangi manseumnida. jeonmungawa sangdam hu jaehyeopsangeul gangnyeokhi gwonjanghamnida.">>
    ELSE IF balance_score >= 60
    THEN <<"eurege bulli", "orange",
           "eurege bullihan johangdeuri itseumnida. juyo johange daehan sujeongeul yocheonghaseyo.">>
    ELSE IF balance_score >= 40
    THEN <<"gyunhyeongjeok", "green",
           "bigyojeok gyunhyeongjapin gyeyakseoimnida. sebu johangeul kkomkkomhi hwaginhaseyo.">>
    ELSE IF balance_score >= 30
    THEN <<"gabege bulli", "orange",
           "gabege bullihan johangdeuri itseumnida.">>
    ELSE <<"gabege maeu bulli", "red",
           "gabege gwadohage bullihan gyeyakseoimnida.">>

\* Lines 248-257: the counts of one side.  severity[severity] += 1 reads the
\* count first: a severity that is no key raises KeyError, which ends the call.
RECURSIVE IndexSeverityCounts(_, _)
IndexSeverityCounts(items, n) ==
    IF n = 0 THEN [critical |-> 0, high |-> 0, medium |-> 0, low |-> 0]
    ELSE LET before == IndexSeverityCounts(items, n - 1)
             severity == Get(items[n], "severity", "medium")
         IN  IF Raised(before) THEN before
             ELSE IF severity \notin DOMAIN before THEN Raise("KeyError")
             ELSE DictSet(before, severity, before[severity] + 1)

\* items[:k]
Prefix(items, k) == SubSeq(items, 1, Min(k, Len(items)))

\* Lines 204-272
analyze_power_balance_weighted(employee_items, employer_items) ==
    LET employer_score == IndexWeightedSum(employer_items, Len(employer_items))
        employee_score == IndexWeightedSum(employee_items, Len(employee_items))
        total_score == employer_score + employee_score
        balance_score == BalanceScore(employee_score, total_score)
        level == WeightedBalanceLevel(balance_score)
        employee_severity ==
            IndexSeverityCounts(employee_items, Len(employee_items))
        employer_severity ==
            IndexSeverityCounts(employer_items, Len(employer_items))
    IN  IF Raised(employee_severity) THEN employee_severity
        ELSE IF Raised(employer_severity) THEN employer_severity
        ELSE [balance_score               |-> balance_score,
              balance_level               |-> level[1],
              balance_color               |-> level[2],
              employer_weighted_score     |-> employer_score,
              employee_weighted_score     |-> employee_score,
              employer_rights_count       |-> Len(employer_items),
              employee_obligations_count  |-> Len(employee_items),
              employer_severity_breakdown |-> employer_severity,
              employee_severity_breakdown |-> employee_severity,
              recommendation              |-> level[3],
              employer_items_sample       |-> Prefix(employer_items, 5),
              employee_items_sample       |-> Prefix(employee_items, 5)]

---------------------------------------------------------------------------
(* index.py: the other percentage variants                                 *)

\* Lines 75-80
employer_keywords ==
    << <<"gab", "eun">>, <<"gab", "i">>,
       <<"bal", "ju", "ja", "neun">>, <<"bal", "ju", "ja", "ga">>,
       <<"hoe", "sa", "neun">>, <<"hoe", "sa", "ga">>,
       <<"im", "ui", "ro">>, <<"il", "bang", "jeok", "eu", "ro">>,
       <<"eon", "je", "deun", "ji">>, <<"jeuk", "si">>,
       <<"tong", "bo", " ", "eobs", "i">>,
       <<"hae", "ji", "hal", " ", "su", " ", "iss", "da">>,
       <<"jung", "dan", "hal", " ", "su", " ", "iss", "da">>,
       <<"byeon", "gyeong", "hal", " ", "su", " ", "iss", "da">>,
       <<"ji", "si">>, <<"myeong", "ryeong">>, <<"yo", "gu">>,
       <<"seung", "in">>, <<"gyeol", "jeong">> >>

\* Lines 83-88
employee_keywords ==
    << <<"eul", "eun">>, <<"eul", "i">>,
       <<"su", "geub", "ja", "neun">>, <<"su", "geub", "ja", "ga">>,
       <<"peu", "ri", "raen", "seo", "neun">>,
       <<"peu", "ri", "raen", "seo", "ga">>,
       <<"ban", "deu", "si">>, <<"ui", "mu">>, <<"chaek", "im">>,
       <<"jun", "su">>, <<"i", "haeng">>, <<"je", "chul">>,
       <<"bae", "sang">>, <<"son", "hae">>, <<"wi", "yag", "geum">>,
       <<"beol", "geum">>,
       <<"geum", "ji">>, <<"je", "han">>, <<"bul", "ga">>,
       <<"hal", " ", "su", " ", "eobs", "da">> >>

\* The thresholds with ">" where lines 178-192 have ">="
BalanceLevel_strict(balance_score) ==
    IF balance_score > 70 THEN <<"eurege maeu bulli", "red">>
    ELSE IF balance_score > 60 THEN <<"eurege bulli", "orange">>
    ELSE IF balance_score > 40 THEN <<"gyunhyeongjeok", "green">>
    ELSE IF balance_score > 30 THEN <<"gabege bulli", "orange">>
    ELSE <<"gabege maeu bulli", "red">>

\* The branches of lines 184-189 in the other order
BalanceLevel_swapped(balance_score) ==
    IF balance_score >= 70 THEN <<"eurege maeu bulli", "red">>
    ELSE IF balance_score >= 60 THEN <<"eurege bulli", "orange">>
    ELSE IF balance_score >= 40 THEN <<"gabege bulli", "orange">>
    ELSE IF balance_score >= 30 THEN <<"gyunhyeongjeok", "green">>
    ELSE <<"gabege maeu bulli", "red">>

\* Lines 102-116, 141-155 and 178-192: <<balance_level, balance_color>>
BalanceLevel(balance_score) ==
    IF balance_score >= 70 THEN <<"eurege maeu bulli", "red">>
    ELSE IF balance_score >= 60 THEN <<"eurege bulli", "orange">>
    ELSE IF balance_score >= 40 THEN <<"gyunhyeongjeok", "green">>
    ELSE IF balance_score >= 30 THEN <<"gabege bulli", "orange">>
    ELSE <<"gabege maeu bulli", "red">>

\* Lines 169-201
calculate_power_score(employee_obligations_count, employer_rights_count) ==
    LET total == employee_obligations_count + employer_rights_count
        balance_score == BalanceScore(employee_obligations_count, total)
        level == BalanceLevel(balance_score)
    IN  [balance_score              |-> balance_score,
         balance_level              |-> level[1],
         balance_color              |-> level[2],
         employer_rights_count      |-> employer_rights_count,
         employee_obligations_count |-> employee_obligations_count]

\* Lines 128-166; the f-string of line 165 is the sequence of its pieces
analyze_power_balance_fast(employee_indicators, employer_indicators) ==
    LET employer_count == Len(employer_indicators)
        employee_count == Len(employee_indicators)
        total == employer_count + employee_count
        balance_score == BalanceScore(employee_count, total)
        level == BalanceLevel(balance_score)
    IN  [balance_score              |-> balance_score,
         balance_level              |-> level[1],
         balance_color              |-> level[2],
         employer_rights_count      |-> employer_count,
         employee_obligations_count |-> employee_count,
         employer_indicators        |-> Prefix(employer_indicators, 10),
         employee_indicators        |-> Prefix(employee_indicators, 10),
         analysis |-> <<"gabui gwolli pyohyeon ", employer_count,
                        "gae, eurui uimu pyohyeon ", employee_count,
                        "gaega balgyeondoeeotseumnida.">>]

\* Lines 71-125, analyze_power_balance of index.py; the f-string of line 124
\* is the sequence of its pieces
index_analyze_power_balance(contract_text) ==
    LET employer_count ==
            KeywordCount(contract_text, employer_keywords,
                         Len(employer_keywords))
        employee_count ==
            KeywordCount(contract_text, employee_keywords,
                         Len(employee_keywords))
        total == employer_count + employee_count
        balance_score == BalanceScore(employee_count, total)
        level == BalanceLevel(balance_score)
    IN  [balance_score              |-> balance_score,
         balance_level              |-> level[1],
         balance_color              |-> level[2],
         employer_rights_count      |-> employer_count,
         employee_obligations_count |-> employee_count,
         analysis |-> <<"gyeyakseoeseo gabui gwolli pyohyeoni ", employer_count,
                        "hoe, eurui uimu pyohyeoni ", employee_count,
                        "hoe balgyeondoeeotseumnida.">>]

---------------------------------------------------------------------------
(* web_api.py: the endpoint /analyze/power-balance                         *)

\* The limit of line 954
TEXT_LIMIT == 5000

\* Line 957: the detail of the rejection
TEXT_TOO_LONG ==
    "tekseuteuga neomu gimnida. 5000ja iharo jurigeona /analyze/power-balance-fastreul sayonghaseyo."

\* raise HTTPException(status_code, detail), as a value
HTTPException(status_code, detail) ==
    [raised |-> "HTTPException", status_code |-> status_code, detail |-> detail]

\* str(e) of line 962: the text of the exception caught
StrOf(e) == <<"str", e>>

\* Lines 953-960: the body of the try block
ApiTryBlock(contract_text) ==
    IF TextLen(contract_text) > TEXT_LIMIT
    THEN HTTPException(400, TEXT_TOO_LONG)
    ELSE [status_code |-> 200,
          content     |-> index_analyze_power_balance(contract_text)]

\* Lines 951-962: the exception of the try block, an HTTPException included,
\* is caught by "except Exception" and replaced by one of status 500.  The
\* response of a raised HTTPException has its status code and its detail.
api_analyze_power_balance(contract_text) ==
    LET attempt == ApiTryBlock(contract_text)
        outcome == IF "raised" \in DOMAIN attempt
                   THEN HTTPException(500, StrOf(attempt))
                   ELSE attempt
    IN  IF "raised" \in DOMAIN outcome
        THEN [status_code |-> outcome.status_code, detail |-> outcome.detail]
        ELSE outcome

---------------------------------------------------------------------------
(* Inputs                                                                  *)

KnownSeverities == {"critical", "high", "medium", "low"}

\* Well-formed findings, and findings whose category or severity is missing
\* or outside the known sets.
RiskCategories == {"unilateral_termination", "copyright_transfer",
                   "payment_delay"}

WellFormedFindings ==
    {[category |-> c, severity |-> s] : c \in RiskCategories,
                                        s \in KnownSeverities}

MalformedFindings ==
    {[category |-> "non_compete", severity |-> "high"],
     [category |-> "unilateral_termination", severity |-> "urgent"],
     [category |-> "unilateral_termination"],
     [category |-> "payment_delay"],
     [severity |-> "low"],
     EmptyDict}

Findings == WellFormedFindings \cup MalformedFindings

RECURSIVE SeqsUpTo(_, _)
SeqsUpTo(S, n) ==
    IF n = 0 THEN {<<>>}
    ELSE LET shorter == SeqsUpTo(S, n - 1)
         IN  shorter \cup {Append(s, x) : s \in shorter, x \in S}

FindingLists == SeqsUpTo(Findings, MaxFindings)

\* Items of the weighted variants, the severity known, unknown or missing
PowerItems ==
    {[text |-> "johang", severity |-> s] : s \in KnownSeverities \cup {"urgent"}}
        \cup {[text |-> "johang"]}

PowerItemLists == SeqsUpTo(PowerItems, MaxItems)

\* The syllables of the texts: the article markers "je" and "jo", the
\* keywords "je han" (an obligation) and "seung in" (a right), the blank
TextAlphabet == {"je", "han", "jo", "seung", "in", " "}

Bodies == SeqsUpTo(TextAlphabet, MaxTextLen)

\* Short texts, and texts padded to the thresholds 500 and 1000 and past them
Texts == {[body |-> b, pad |-> p] : b \in Bodies, p \in {0, 498, 998}}

\* A short text with a small chunk size, or any text with the default one
\* or with one above the threshold of analyze_power_balance
ChunkedCalls ==
    {<<[body |-> b, pad |-> 0], size>> : b \in Bodies, size \in 1..MaxChunkSize}
        \cup {<<t, CHUNK_SIZE>> : t \in Texts}
        \cup {<<t, LargeChunkSize>> :
                  t \in {x \in Texts : \A i \in DOMAIN x.body :
                                           x.body[i] \in {"seung", "in"}}}

\* The counts a caller hands to calculate_power_score
PercentCounts == 0..MaxCount

\* The counts a caller hands to calculate_power_balance_from_counts: small
\* ones, and an employer count large enough for a ratio to lie within 0.005
\* of a threshold without being on it
EmployerCounts == (0..MaxEmployerCount) \cup {LargeEmployerCount}
EmployeeCounts == 0..MaxEmployeeCount

\* Lists of expressions found by the caller, each one its own string
IndicatorLists ==
    {[k \in 1..n |-> <<"pyohyeon", k>>] : n \in 0..MaxIndicators}

\* Texts of a request, short ones and ones about the limit of 5000
RequestTexts ==
    {[body |-> b, pad |-> p] : b \in Bodies, p \in {0, 4997, 4999}}

NoText == [body |-> <<>>, pad |-> 0]

NoArgs ==
    [findings                   |-> <<>>,
     employer_items             |-> <<>>,
     employee_items             |-> <<>>,
     contract_text              |-> NoText,
     chunk_size                 |-> 0,
     employer_count             |-> 0,
     employee_count             |-> 0,
     employee_obligations_count |-> 0,
     employer_rights_count      |-> 0,
     employee_indicators        |-> <<>>,
     employer_indicators        |-> <<>>]

---------------------------------------------------------------------------
(* The calls                                                               *)

\* The module-level names bound at import and their values
ModuleTables ==
    [RISK_WEIGHTS                  |-> RISK_WEIGHTS,
     SEVERITY_MULTIPLIER           |-> SEVERITY_MULTIPLIER,
     EMPLOYER_RIGHTS_KEYWORDS      |-> EMPLOYER_RIGHTS_KEYWORDS,
     EMPLOYEE_OBLIGATIONS_KEYWORDS |-> EMPLOYEE_OBLIGATIONS_KEYWORDS]

\* A call that stores the category of a finding it does not know in
\* RISK_WEIGHTS, with the default weight
TablesAfterCall_learns_category(module_tables) ==
    [module_tables EXCEPT !.RISK_WEIGHTS =
        DictSet(module_tables.RISK_WEIGHTS, "non_compete", 10)]

\* The tables after a call: the entry points read them with .get() and in
\* loops and bind or store nothing at module level
TablesAfterCall(module_tables) == module_tables

\* Line 84 with "finding_copy = finding": the input finding is annotated
FindingsAfterCall_annotated(findings) ==
    [i \in DOMAIN findings |->
        DictSet(findings[i], "impact_score", impact_score(findings[i]))]

\* The list of findings after calculate_risk_score: line 84 copies each
\* finding before line 85 writes to the copy, and the list is only read
FindingsAfterCall(findings) == findings

\* Nothing kept
NoCall == [call |-> "none"]

\* The calls a caller keeps: one list of findings for calculate_risk_score,
\* one text for analyze_power_balance
KeptInputs ==
    {[NoArgs EXCEPT !.findings =
          <<[category |-> "unilateral_termination", severity |-> "critical"],
            [category |-> "payment_delay", severity |-> "low"]>>],
     [NoArgs EXCEPT !.contract_text =
          [body |-> <<"seung", "in">>, pad |-> 0]]}

\* What the caller holds after a further call c(a): a call with another
\* entry point or other arguments than the kept one has come in between
AfterCall(kept, c, a) ==
    IF kept = NoCall \/ (c = kept.call /\ a = kept.args) THEN kept
    ELSE [kept EXCEPT !.interleaved = TRUE]

Init ==
    /\ call = "none"
    /\ args = NoArgs
    /\ result = EmptyDict
    /\ after = NoArgs
    /\ tables = ModuleTables
    /\ earlier = NoCall

\* A caller invokes an entry point; the call runs to its return (or raise).
CalculateRiskScore ==
    /\ call = "none"
    /\ \E findings \in FindingLists :
            /\ call' = "calculate_risk_score"
            /\ args' = [NoArgs EXCEPT !.findings = findings]
            /\ result' = calculate_risk_score(findings)
    /\ after' = [args' EXCEPT !.findings = FindingsAfterCall(args'.findings)]
    /\ tables' = TablesAfterCall(tables)
    /\ earlier' = AfterCall(earlier, call', args')

\* The caller takes the result; the call itself keeps nothing.
Return ==
    /\ call # "none"
    /\ call' = "none"
    /\ args' = NoArgs
    /\ result' = EmptyDict
    /\ after' = NoArgs
    /\ UNCHANGED <<tables, earlier>>

AnalyzeContractRisk ==
    /\ call = "none"
    /\ \E findings \in FindingLists :
            /\ call' = "analyze_contract_risk"
            /\ args' = [NoArgs EXCEPT !.findings = findings]
            /\ result' = analyze_contract_risk(findings)
    /\ after' = args'
    /\ tables' = TablesAfterCall(tables)
    /\ earlier' = AfterCall(earlier, call', args')

CalculatePowerBalanceWeighted ==
    /\ call = "none"
    /\ \E employer_items \in PowerItemLists, employee_items \in PowerItemLists :
            /\ call' = "calculate_power_balance_weighted"
            /\ args' = [NoArgs EXCEPT !.employer_items = employer_items,
                                      !.employee_items = employee_items]
            /\ result' = calculate_power_balance_weighted(employer_items,
                                                          employee_items)
    /\ after' = args'
    /\ tables' = TablesAfterCall(tables)
    /\ earlier' = AfterCall(earlier, call', args')

AnalyzePowerBalanceWeighted ==
    /\ call = "none"
    /\ \E employee_items \in PowerItemLists, employer_items \in PowerItemLists :
            /\ call' = "analyze_power_balance_weighted"
            /\ args' = [NoArgs EXCEPT !.employer_items = employer_items,
                                      !.employee_items = employee_items]
            /\ result' = analyze_power_balance_weighted(employee_items,
                                                        employer_items)
    /\ after' = args'
    /\ tables' = TablesAfterCall(tables)
    /\ earlier' = AfterCall(earlier, call', args')

AnalyzePowerBalance ==
    /\ call = "none"
    /\ \E contract_text \in Texts :
            /\ call' = "analyze_power_balance"
            /\ args' = [NoArgs EXCEPT !.contract_text = contract_text]
            /\ result' = analyze_power_balance(contract_text)
    /\ after' = args'
    /\ tables' = TablesAfterCall(tables)
    /\ earlier' = AfterCall(earlier, call', args')

AnalyzePowerBalanceChunked ==
    /\ call = "none"
    /\ \E c \in ChunkedCalls :
            /\ call' = "analyze_power_balance_chunked"
            /\ args' = [NoArgs EXCEPT !.contract_text = c[1], !.chunk_size = c[2]]
            /\ result' = analyze_power_balance_chunked(c[1], c[2])
    /\ after' = args'
    /\ tables' = TablesAfterCall(tables)
    /\ earlier' = AfterCall(earlier, call', args')

CalculatePowerBalanceFromCounts ==
    /\ call = "none"
    /\ \E employer_count \in EmployerCounts, employee_count \in EmployeeCounts :
            /\ call' = "calculate_power_balance_from_counts"
            /\ args' = [NoArgs EXCEPT !.employer_count = employer_count,
                                      !.employee_count = employee_count]
            /\ result' = calculate_power_balance_from_counts(employer_count,
                                                             employee_count)
    /\ after' = args'
    /\ tables' = TablesAfterCall(tables)
    /\ earlier' = AfterCall(earlier, call', args')

CalculatePowerScore ==
    /\ call = "none"
    /\ \E employee_obligations_count \in PercentCounts,
          employer_rights_count \in PercentCounts :
            /\ call' = "calculate_power_score"
            /\ args' = [NoArgs EXCEPT
                           !.employee_obligations_count =
                               employee_obligations_count,
                           !.employer_rights_count = employer_rights_count]
            /\ result' = calculate_power_score(employee_obligations_count,
                                               employer_rights_count)
    /\ after' = args'
    /\ tables' = TablesAfterCall(tables)
    /\ earlier' = AfterCall(earlier, call', args')

AnalyzePowerBalanceFast ==
    /\ call = "none"
    /\ \E employee_indicators \in IndicatorLists,
          employer_indicators \in IndicatorLists :
            /\ call' = "analyze_power_balance_fast"
            /\ args' = [NoArgs EXCEPT
                           !.employee_indicators = employee_indicators,
                           !.employer_indicators = employer_indicators]
            /\ result' = analyze_power_balance_fast(employee_indicators,
                                                    employer_indicators)
    /\ after' = args'
    /\ tables' = TablesAfterCall(tables)
    /\ earlier' = AfterCall(earlier, call', args')

\* analyze_power_balance of index.py
IndexAnalyzePowerBalance ==
    /\ call = "none"
    /\ \E contract_text \in Texts :
            /\ call' = "index.analyze_power_balance"
            /\ args' = [NoArgs EXCEPT !.contract_text = contract_text]
            /\ result' = index_analyze_power_balance(contract_text)
    /\ after' = args'
    /\ tables' = TablesAfterCall(tables)
    /\ earlier' = AfterCall(earlier, call', args')

\* POST /analyze/power-balance
ApiAnalyzePowerBalance ==
    /\ call = "none"
    /\ \E contract_text \in RequestTexts :
            /\ call' = "api_analyze_power_balance"
            /\ args' = [NoArgs EXCEPT !.contract_text = contract_text]
            /\ result' = api_analyze_power_balance(contract_text)
    /\ after' = args'
    /\ tables' = TablesAfterCall(tables)
    /\ earlier' = AfterCall(earlier, call', args')

\* The caller keeps the arguments and the result of the call at hand
Keep ==
    /\ call # "none"
    /\ earlier = NoCall
    /\ args \in KeptInputs
    /\ earlier' = [call |-> call, args |-> args, result |-> result,
                   interleaved |-> FALSE]
    /\ UNCHANGED <<call, args, result, after, tables>>

Next ==
    \/ CalculateRiskScore
    \/ AnalyzeContractRisk
    \/ CalculatePowerBalanceWeighted
    \/ AnalyzePowerBalanceWeighted
    \/ AnalyzePowerBalance
    \/ AnalyzePowerBalanceChunked
    \/ CalculatePowerBalanceFromCounts
    \/ CalculatePowerScore
    \/ AnalyzePowerBalanceFast
    \/ IndexAnalyzePowerBalance
    \/ ApiAnalyzePowerBalance
    \/ Keep
    \/ Return

Spec == Init /\ [][Next]_vars

\* The callers of the risk aggregator alone
\* A caller that repeats a call among other calls
NextRepeat ==
    \/ CalculateRiskScore
    \/ AnalyzePowerBalance
    \/ Keep
    \/ Return

SpecRepeat == Init /\ [][NextRepeat]_vars

NextRisk ==
    \/ CalculateRiskScore
    \/ Return

SpecRisk == Init /\ [][NextRisk]_vars

\* The callers of the entry points that take severity-tagged items
NextSeverity ==
    \/ CalculateRiskScore
    \/ AnalyzeContractRisk
    \/ CalculatePowerBalanceWeighted
    \/ AnalyzePowerBalanceWeighted
    \/ Return

SpecSeverity == Init /\ [][NextSeverity]_vars

\* The callers of the text-driven entry points of power_analyzer.py
NextText ==
    \/ AnalyzePowerBalance
    \/ AnalyzePowerBalanceChunked
    \/ Return

SpecText == Init /\ [][NextText]_vars

\* The callers of the entry points that read a contract text
NextContractText ==
    \/ AnalyzePowerBalance
    \/ AnalyzePowerBalanceChunked
    \/ IndexAnalyzePowerBalance
    \/ Return

SpecContractText == Init /\ [][NextContractText]_vars

\* The callers of the percentage variants of index.py
NextPercent ==
    \/ CalculatePowerScore
    \/ AnalyzePowerBalanceFast
    \/ AnalyzePowerBalanceWeighted
    \/ IndexAnalyzePowerBalance
    \/ Return

SpecPercent == Init /\ [][NextPercent]_vars

\* The callers of the variants that take counts or items
NextCounts ==
    \/ CalculatePowerScore
    \/ CalculatePowerBalanceFromCounts
    \/ CalculatePowerBalanceWeighted
    \/ Return

SpecCounts == Init /\ [][NextCounts]_vars

\* The callers of the ratio variants of power_analyzer.py
NextRatio ==
    \/ CalculatePowerBalanceFromCounts
    \/ CalculatePowerBalanceWeighted
    \/ AnalyzePowerBalance
    \/ AnalyzePowerBalanceChunked
    \/ Return

SpecRatio == Init /\ [][NextRatio]_vars

\* The clients of the endpoint /analyze/power-balance
NextApi ==
    \/ ApiAnalyzePowerBalance
    \/ Return

SpecApi == Init /\ [][NextApi]_vars

---------------------------------------------------------------------------
(* Properties of the risk aggregator (risk_calculator.py)                  *)

RiskCall == call = "calculate_risk_score"

\* What the contract of the aggregator says a finding contributes:
\* floor(base_weight(category, default 10) x multiplier(severity, default 1.0))
ContractWeight(finding) ==
    IF "category" \in DOMAIN finding /\ finding.category \in DOMAIN RISK_WEIGHTS
    THEN RISK_WEIGHTS[finding.category]
    ELSE 10

ContractMultiplier(finding) ==
    IF "severity" \in DOMAIN finding /\ finding.severity \in KnownSeverities
    THEN SEVERITY_MULTIPLIER[finding.severity]
    ELSE 10

\* The multiplier is in tenths: the floor of weight x multiplier / 10
ContractImpact(finding) ==
    (ContractWeight(finding) * ContractMultiplier(finding)) \div 10

RECURSIVE SumOver(_, _)
SumOver(S, f) ==
    IF S = {} THEN 0
    ELSE LET x == CHOOSE y \in S : TRUE
         IN  f[x] + SumOver(S \ {x}, f)

\* The sum of the contract's impacts of the findings at the positions in I
SumImpacts(findings, I) ==
    SumOver(I, [i \in I |-> ContractImpact(findings[i])])

CategoryOf(finding) ==
    IF "category" \in DOMAIN finding THEN finding.category ELSE ""

SeverityRank(s) ==
    CASE s = "low" -> 1 [] s = "medium" -> 2 [] s = "high" -> 3
      [] s = "critical" -> 4

\* A (safe) is the lowest rank, F (very dangerous) the highest.
GradeRank(g) ==
    CASE g = GRADE_A -> 1 [] g = GRADE_B -> 2 [] g = GRADE_C -> 3
      [] g = GRADE_D -> 4 [] g = GRADE_F -> 5

\* C1: for every list of findings, whatever its categories and severities,
\* calculate_risk_score returns a total_score between 0 and 100.
C1_TotalScoreWithinBounds ==
    RiskCall => result.total_score \in 0..100

\* The cap acts: the impacts sum to more than 100 and 100 is returned.
C1_Witness ==
    /\ RiskCall
    /\ SumImpacts(args.findings, DOMAIN args.findings) > 100
    /\ result.total_score = 100
    /\ \E i \in DOMAIN args.findings :
           Get(args.findings[i], "severity", "") \notin KnownSeverities

C3_GradeByThresholds ==
    RiskCall =>
        LET t == result.total_score
        IN  /\ (t >= 80) <=> (result.grade = GRADE_F)
            /\ (t >= 60 /\ t < 80) <=> (result.grade = GRADE_D)
            /\ (t >= 40 /\ t < 60) <=> (result.grade = GRADE_C)
            /\ (t >= 20 /\ t < 40) <=> (result.grade = GRADE_B)
            /\ (t < 20) <=> (result.grade = GRADE_A)

\* A total on a threshold: exactly 80 is graded F.
C3_Witness ==
    /\ RiskCall
    /\ result.total_score = 80
    /\ result.grade = GRADE_F

UnilateralCritical ==
    <<[category |-> "unilateral_termination", severity |-> "critical"]>>

\* C4 as stated: the single finding unilateral_termination / critical has
\* impact 45, total_score 45 and grade D.
C4_ExampleGradeD ==
    (RiskCall /\ args.findings = UnilateralCritical) =>
        /\ result.findings_with_impact[1].impact_score = 45
        /\ result.total_score = 45
        /\ result.grade = GRADE_D

\* C4, amended: the single finding unilateral_termination / critical has
\* impact 45, total_score 45 and grade C (45 is at least 40 and below 60).
C4_ExampleGradeC ==
    (RiskCall /\ args.findings = UnilateralCritical) =>
        /\ result.findings_with_impact[1].impact_score = 45
        /\ result.total_score = 45
        /\ result.grade = GRADE_C

C4_Witness ==
    /\ RiskCall
    /\ args.findings = UnilateralCritical
    /\ result.total_score = 45

\* The findings with the severity of finding i replaced by s
WithSeverity(findings, i, s) ==
    [findings EXCEPT ![i] = DictSet(findings[i], "severity", s)]

\* C5: replacing the severity of one finding by a higher one (low < medium <
\* high < critical), everything else unchanged, never lowers total_score and
\* never moves the grade toward A.
C5_RaisingSeverityIsMonotone ==
    RiskCall =>
        \A i \in DOMAIN args.findings :
            \A s \in KnownSeverities :
                ( /\ "severity" \in DOMAIN args.findings[i]
                  /\ args.findings[i].severity \in KnownSeverities
                  /\ SeverityRank(s) > SeverityRank(args.findings[i].severity) )
                =>
                LET raised ==
                        calculate_risk_score(WithSeverity(args.findings, i, s))
                IN  /\ raised.total_score >= result.total_score
                    /\ GradeRank(raised.grade) >= GradeRank(result.grade)

\* A list where raising one severity moves the grade, and one where it
\* cannot (the total is already capped).
C5_Witness ==
    /\ RiskCall
    /\ Len(args.findings) = 2
    /\ \E i \in DOMAIN args.findings :
           /\ Get(args.findings[i], "severity", "") = "low"
           /\ GradeRank(calculate_risk_score(
                  WithSeverity(args.findings, i, "critical")).grade)
                  > GradeRank(result.grade)

\* C6: total_score is 0 exactly when the list of findings is empty; every
\* non-empty list yields at least 1.
C6_ZeroOnlyWhenEmpty ==
    RiskCall =>
        /\ (result.total_score = 0) <=> (args.findings = <<>>)
        /\ (args.findings # <<>>) => (result.total_score >= 1)

\* The smallest contribution there is: one unknown category at severity low.
C6_Witness ==
    /\ RiskCall
    /\ Len(args.findings) = 1
    /\ result.total_score = 7

\* C7: an empty list is not an error: total_score 0, grade A, an empty
\* category_scores and an empty findings_with_impact.
C7_EmptyListIsSafe ==
    (RiskCall /\ args.findings = <<>>) =>
        /\ ~Raised(result)
        /\ DOMAIN result = {"total_score", "grade", "category_scores",
                            "findings_with_impact"}
        /\ result.total_score = 0
        /\ result.grade = GRADE_A
        /\ DOMAIN result.category_scores = {}
        /\ result.findings_with_impact = <<>>

C7_Witness ==
    /\ RiskCall
    /\ args.findings = <<>>
    /\ result.grade = GRADE_A

---------------------------------------------------------------------------
(* Properties of the handling of unknown and missing values                *)

SeverityTaggedCall ==
    call \in {"calculate_risk_score", "analyze_contract_risk",
              "analyze_power_balance_weighted",
              "calculate_power_balance_weighted"}

\* C8 as stated: in every entry point that takes severity-tagged items, an
\* item whose category or severity is outside the known sets is never
\* rejected and never raises: the call completes with a result.
C8_UnknownValuesNeverRaise ==
    SeverityTaggedCall => ~Raised(result)

\* The items with every missing severity filled in as s
FillSeverity(items, s) ==
    [i \in DOMAIN items |->
        IF "severity" \in DOMAIN items[i] THEN items[i]
        ELSE DictSet(items[i], "severity", s)]

\* What calculate_risk_score scores: the total, the grade, the category
\* scores and each finding's impact
RiskScores(r) ==
    <<r.total_score, r.grade, r.category_scores,
      [i \in DOMAIN r.findings_with_impact |->
          r.findings_with_impact[i].impact_score]>>

\* What analyze_power_balance_weighted scores: all of its result but the
\* echoed items
IndexPowerScores(r) ==
    IF Raised(r) THEN r
    ELSE [k \in DOMAIN r \ {"employer_items_sample", "employee_items_sample"}
             |-> r[k]]

\* The power-balance half of C9: an item with no severity is scored as one
\* with severity "medium", in both weighted variants.
PowerDefaultIsMedium ==
    /\ (call = "calculate_power_balance_weighted") =>
           result = calculate_power_balance_weighted(
                        FillSeverity(args.employer_items, "medium"),
                        FillSeverity(args.employee_items, "medium"))
    /\ (call = "analyze_power_balance_weighted") =>
           IndexPowerScores(result)
               = IndexPowerScores(analyze_power_balance_weighted(
                     FillSeverity(args.employee_items, "medium"),
                     FillSeverity(args.employer_items, "medium")))

\* C9 as stated: the risk path scores a finding with no severity exactly as
\* one with severity "low", the power-balance path scores an item with no
\* severity exactly as one with severity "medium".
C9_RiskDefaultLowPowerDefaultMedium ==
    /\ (call = "calculate_risk_score") =>
           RiskScores(result)
               = RiskScores(calculate_risk_score(
                     FillSeverity(args.findings, "low")))
    /\ (call = "analyze_contract_risk") =>
           result = analyze_contract_risk(FillSeverity(args.findings, "low"))
    /\ PowerDefaultIsMedium

\* C9, amended: the default is set per entry point.  analyze_contract_risk
\* scores a finding with no severity exactly as one with severity "low";
\* calculate_risk_score scores it exactly as one with severity "medium"; both
\* weighted power-balance entry points score an item with no severity exactly
\* as one with severity "medium".
C9_DefaultSeverityPerEntryPoint ==
    /\ (call = "calculate_risk_score") =>
           RiskScores(result)
               = RiskScores(calculate_risk_score(
                     FillSeverity(args.findings, "medium")))
    /\ (call = "analyze_contract_risk") =>
           result = analyze_contract_risk(FillSeverity(args.findings, "low"))
    /\ PowerDefaultIsMedium

\* calculate_risk_score on one finding of a known category and no severity:
\* the impact is the base weight, 30, where "low" would give 21.
C9_Witness ==
    /\ call = "calculate_risk_score"
    /\ args.findings = <<[category |-> "unilateral_termination"]>>
    /\ result.total_score = 30

---------------------------------------------------------------------------
(* Properties of the chunker                                               *)

\* C10 as stated: for every text longer than the chunk size that holds the
\* article markers, the employer and employee totals of
\* analyze_power_balance_chunked are those of one pass of the keyword matcher
\* over the whole text.
C10_ArticleChunkingKeepsCounts ==
    ( /\ call = "analyze_power_balance_chunked"
      /\ TextLen(args.contract_text) > args.chunk_size
      /\ Contains(args.contract_text, "je")
      /\ Contains(args.contract_text, "jo") )
    =>
    /\ result.employer_rights_count = EmployerCount(args.contract_text)
    /\ result.employee_obligations_count = EmployeeCount(args.contract_text)


\* Keyword occurs in the body at position i (counted from 1)
OccursAt(body, keyword, i) ==
    /\ i + Len(keyword) - 1 <= Len(body)
    /\ SubSeq(body, i, i + Len(keyword) - 1) = keyword

\* The keywords of both lists
AllKeywords ==
    {EMPLOYER_RIGHTS_KEYWORDS[k] : k \in DOMAIN EMPLOYER_RIGHTS_KEYWORDS}
        \cup {EMPLOYEE_OBLIGATIONS_KEYWORDS[k] :
                  k \in DOMAIN EMPLOYEE_OBLIGATIONS_KEYWORDS}

\* No occurrence of a keyword holds syllables of two slices of the given size:
\* an occurrence that starts at i and is n long spans the boundary b when
\* i - 1 < b < i - 1 + n, for the boundaries b = size, 2 * size, ...
NoKeywordSpans(text, size) ==
    \A keyword \in AllKeywords : \A i \in DOMAIN text.body :
        OccursAt(text.body, keyword, i) =>
            \A b \in i..(i + Len(keyword) - 2) : b % size # 0

\* The text goes to fixed-size slicing (line 84), not to the article split
NoArticleMarkers(text) == ~(Contains(text, "je") /\ Contains(text, "jo"))

\* The fields of a balance result the splits are compared on
BalanceFields ==
    {"employer_rights_count", "employee_obligations_count", "balance_ratio",
     "power_level", "recommendations"}

Restrict(d, keys) == [k \in (DOMAIN d) \cap keys |-> d[k]]

---------------------------------------------------------------------------
(* Properties of the power-balance entry points                            *)

TextCalls ==
    {"analyze_power_balance", "analyze_power_balance_chunked",
     "index.analyze_power_balance"}

\* C12 as stated: every text-driven balance entry point called with an empty
\* contract text returns a normal result, with no error field and with
\* employer and employee counts of zero.
C12_EmptyTextIsNotAnError ==
    (call \in TextCalls /\ TextLen(args.contract_text) = 0)
    =>
    /\ "error" \notin DOMAIN result
    /\ "employer_rights_count" \in DOMAIN result
    /\ "employee_obligations_count" \in DOMAIN result
    /\ result.employer_rights_count = 0
    /\ result.employee_obligations_count = 0

PercentCalls ==
    {"calculate_power_score", "analyze_power_balance_fast",
     "analyze_power_balance_weighted", "index.analyze_power_balance"}

\* The call returned a result of the percentage convention
PercentResult == call \in PercentCalls /\ ~Raised(result)

\* The two side values the score of the call is taken from: the counts, the
\* lengths of the indicator lists, or the weighted scores of the item lists
EmployeeSide ==
    IF call = "calculate_power_score" THEN args.employee_obligations_count
    ELSE IF call = "analyze_power_balance_fast"
    THEN Len(args.employee_indicators)
    ELSE IF call = "analyze_power_balance_weighted"
    THEN result.employee_weighted_score
    ELSE result.employee_obligations_count

EmployerSide ==
    IF call = "calculate_power_score" THEN args.employer_rights_count
    ELSE IF call = "analyze_power_balance_fast"
    THEN Len(args.employer_indicators)
    ELSE IF call = "analyze_power_balance_weighted"
    THEN result.employer_weighted_score
    ELSE result.employer_rights_count

\* n is an integer nearest to num / den
NearestInteger(n, num, den) ==
    /\ 2 * (num - n * den) <= den
    /\ 2 * (n * den - num) <= den

\* The level of a score by the thresholds 70, 60, 40 and 30
LevelOfScore(score) ==
    CASE score \in 70..100 -> "eurege maeu bulli"
      [] score \in 60..69  -> "eurege bulli"
      [] score \in 40..59  -> "gyunhyeongjeok"
      [] score \in 30..39  -> "gabege bulli"
      [] score \in 0..29   -> "gabege maeu bulli"

\* C13: calculate_power_score, analyze_power_balance_fast and
\* analyze_power_balance_weighted, for side values employee and employer with
\* employee + employer > 0, return as balance_score an integer nearest to
\* 100 * employee / (employee + employer) and as level the one its thresholds
\* give: >= 70 very unfavorable to the employee, >= 60 unfavorable to the
\* employee, >= 40 balanced, >= 30 unfavorable to the employer, below that very
\* unfavorable to the employer; the counts (70, 30) give 70 and very
\* unfavorable to the employee.
C13_PercentageConvention ==
    /\ ( /\ PercentResult
         /\ call # "index.analyze_power_balance"
         /\ EmployeeSide + EmployerSide > 0 )
       =>
       /\ result.balance_score \in 0..100
       /\ NearestInteger(result.balance_score, 100 * EmployeeSide,
                         EmployeeSide + EmployerSide)
       /\ result.balance_level = LevelOfScore(result.balance_score)
    /\ ( /\ call = "calculate_power_score"
         /\ args.employee_obligations_count = 70
         /\ args.employer_rights_count = 30 )
       =>
       /\ result.balance_score = 70
       /\ result.balance_level = "eurege maeu bulli"

\* calculate_power_score(70, 30) has returned 70
C13_Witness ==
    /\ call = "calculate_power_score"
    /\ args.employee_obligations_count = 70
    /\ args.employer_rights_count = 30
    /\ result.balance_score = 70
    /\ result.balance_level = "eurege maeu bulli"

\* No keyword of index.py occurs in the text
NoIndexKeyword(text) ==
    \A k \in DOMAIN employer_keywords \cup DOMAIN employee_keywords :
        \A i \in DOMAIN text.body :
            /\ k \in DOMAIN employer_keywords =>
                   ~OccursAt(text.body, employer_keywords[k], i)
            /\ k \in DOMAIN employee_keywords =>
                   ~OccursAt(text.body, employee_keywords[k], i)

\* The call is one of a percentage variant with nothing on either side
BothSidesZero ==
    \/ /\ call = "calculate_power_score"
       /\ args.employee_obligations_count = 0
       /\ args.employer_rights_count = 0
    \/ /\ call = "analyze_power_balance_fast"
       /\ args.employee_indicators = <<>>
       /\ args.employer_indicators = <<>>
    \/ /\ call = "analyze_power_balance_weighted"
       /\ args.employee_items = <<>>
       /\ args.employer_items = <<>>
    \/ /\ call = "index.analyze_power_balance"
       /\ NoIndexKeyword(args.contract_text)

\* C14: in every percentage variant (calculate_power_score,
\* analyze_power_balance_fast, analyze_power_balance_weighted and
\* analyze_power_balance of index.py), a call with zero counts, empty indicator
\* lists, empty item lists or a text with no keyword raises nothing and
\* returns balance_score 50 with the level balanced.
C14_ZeroTotalIsNeutral ==
    BothSidesZero
    =>
    /\ ~Raised(result)
    /\ result.balance_score = 50
    /\ result.balance_level = "gyunhyeongjeok"

\* analyze_power_balance of index.py on the text "han je", which holds no
\* keyword, has returned the score 50 and the counts 0 and 0
C14_Witness ==
    /\ call = "index.analyze_power_balance"
    /\ args.contract_text = [body |-> <<"han", "je">>, pad |-> 0]
    /\ BothSidesZero
    /\ result.employer_rights_count = 0
    /\ result.employee_obligations_count = 0
    /\ result.balance_score = 50

\* The factors of the scale-invariance check
Scales == 1..MaxScale

\* C15: for all counts e and r and every factor k >= 1,
\* calculate_power_score(k * e, k * r) returns the balance_score and the
\* level that calculate_power_score(e, r) returns.
C15_ScaleInvariance ==
    (call = "calculate_power_score")
    =>
    \A k \in Scales :
        LET scaled == calculate_power_score(
                          k * args.employee_obligations_count,
                          k * args.employer_rights_count)
        IN  /\ scaled.balance_score = result.balance_score
            /\ scaled.balance_level = result.balance_level

\* calculate_power_score(23, 17) has returned 57, and so does
\* calculate_power_score(46, 34): the quotient 23/40, whose exact percentage
\* 57.5 lies half-way, is rounded the same way at both scales
C15_Witness ==
    /\ call = "calculate_power_score"
    /\ args.employee_obligations_count = 23
    /\ args.employer_rights_count = 17
    /\ result.balance_score = 57
    /\ calculate_power_score(46, 34).balance_score = 57

RatioCalls ==
    {"calculate_power_balance_from_counts", "calculate_power_balance_weighted",
     "analyze_power_balance", "analyze_power_balance_chunked"}

\* The call returned a result of the ratio convention
RatioResult == call \in RatioCalls /\ "balance_ratio" \in DOMAIN result

\* The employer and employee values the ratio of the call is taken from: the
\* counts, or the weighted scores (in tenths)
EmployerValue ==
    IF call = "calculate_power_balance_weighted"
    THEN result.employer_weighted_score
    ELSE result.employer_rights_count

EmployeeValue ==
    IF call = "calculate_power_balance_weighted"
    THEN result.employee_weighted_score
    ELSE result.employee_obligations_count

\* One unit of the values above: a count of 1, or a weighted score of 1.0
ValueUnit == IF call = "calculate_power_balance_weighted" THEN 10 ELSE 1

\* The ratio of the call as the fraction num / den
ExactRatio ==
    IF EmployerValue = 0
    THEN [num |-> EmployeeValue, den |-> ValueUnit]
    ELSE [num |-> EmployeeValue, den |-> EmployerValue]

\* Ratio num / den compared with the decimal tenths / 10
Above(ratio, tenths) == 10 * ratio.num > tenths * ratio.den
AtLeast(ratio, tenths) == 10 * ratio.num >= tenths * ratio.den

\* The tiers <<level, fairness score>> whose range of ratios holds the ratio
TiersOf(ratio) ==
    (IF Above(ratio, 30)
     THEN {<<"gap jeoldaeuwi (geukdoro bulgongjeong)", 10>>} ELSE {})
    \cup (IF Above(ratio, 20) /\ ~Above(ratio, 30)
          THEN {<<"gap uwi (maeu bulgongjeong)", 30>>} ELSE {})
    \cup (IF Above(ratio, 15) /\ ~Above(ratio, 20)
          THEN {<<"gap uwi (bulgongjeong)", 50>>} ELSE {})
    \cup (IF Above(ratio, 12) /\ ~Above(ratio, 15)
          THEN {<<"yakgan gap uwi", 70>>} ELSE {})
    \cup (IF AtLeast(ratio, 8) /\ ~Above(ratio, 12)
          THEN {<<"gyunhyeongjeok", 90>>} ELSE {})
    \cup (IF ~AtLeast(ratio, 8)
          THEN {<<"eul uwi (deumun gyeongu)", 95>>} ELSE {})

\* The fairness score on the boundaries 3.0, 2.0, 1.5, 1.2 and 0.8
BoundaryFairness == [b \in {30, 20, 15, 12, 8} |->
                        CASE b = 30 -> 30
                          [] b = 20 -> 50
                          [] b = 15 -> 70
                          [] b = 12 -> 90
                          [] b = 8  -> 90]

\* C16: the level and fairness score returned for a ratio are those of the
\* one tier that holds it: above 3.0 absolute employer dominance with 10,
\* above 2.0 employer dominance with 30, above 1.5 employer favored with 50,
\* above 1.2 slightly employer favored with 70, from 0.8 balanced with 90,
\* below 0.8 employee favored with 95; a ratio of exactly 3.0, 2.0, 1.5 or
\* 1.2 gets the tier below the boundary and 0.8 gets balanced.
C16_LevelByRatioThresholds ==
    RatioResult
    =>
    /\ TiersOf(ExactRatio) = {<<result.power_level, result.fairness_score>>}
    /\ \A b \in DOMAIN BoundaryFairness :
           (10 * ExactRatio.num = b * ExactRatio.den)
               => result.fairness_score = BoundaryFairness[b]

\* calculate_power_balance_from_counts(5, 6): the ratio is the boundary 1.2
\* and the level is balanced, 90
C16_Witness ==
    /\ call = "calculate_power_balance_from_counts"
    /\ args.employer_count = 5
    /\ args.employee_count = 6
    /\ result.balance_ratio = 120
    /\ result.power_level = "gyunhyeongjeok"
    /\ result.fairness_score = 90

\* C17 as stated: whenever the employer and the employee value of a ratio
\* variant are equal, both being zero included, the call returns the ratio
\* 1.0, the level balanced and the fairness score 90.
C17_EqualScoresAreBalanced ==
    (RatioResult /\ EmployerValue = EmployeeValue)
    =>
    /\ result.balance_ratio = 100
    /\ result.power_level = "gyunhyeongjeok"
    /\ result.fairness_score = 90

\* C18: every call of a ratio variant (from a text, chunked, from counts,
\* from weighted items) raises nothing, and the ratio it returns is the
\* employee value divided by the employer value, to two decimals, when the
\* employer value is not zero, and the employee value itself when it is.
C18_RatioWithoutDivisionByZero ==
    /\ (call \in RatioCalls) => ~Raised(result)
    /\ RatioResult =>
           /\ NearestInteger(result.balance_ratio, 100 * ExactRatio.num,
                             ExactRatio.den)
           /\ (EmployerValue = 0) =>
                  result.balance_ratio * ValueUnit = 100 * EmployeeValue

\* calculate_power_balance_from_counts(0, 7): no employer right, and the
\* ratio returned is 7
C18_Witness ==
    /\ call = "calculate_power_balance_from_counts"
    /\ args.employer_count = 0
    /\ args.employee_count = 7
    /\ result.balance_ratio = 700

\* The weights critical 3.0, high 2.0, medium 1.0 and low 0.5, in tenths
StatedWeights == [critical |-> 30, high |-> 20, medium |-> 10, low |-> 5]

\* Every item of the list carries one of the four severities
KnownSeverityItems(items) ==
    \A i \in DOMAIN items :
        /\ "severity" \in DOMAIN items[i]
        /\ items[i].severity \in DOMAIN StatedWeights

\* The sum of the stated weights of the items, in tenths
StatedWeightedSum(items) ==
    SumOver(DOMAIN items,
            [i \in DOMAIN items |-> StatedWeights[items[i].severity]])

CriticalItem == [text |-> "johang", severity |-> "critical"]
LowItem == [text |-> "johang", severity |-> "low"]

\* C19: calculate_power_balance_weighted returns per side the sum of the
\* weights critical 3.0, high 2.0, medium 1.0, low 0.5 of its items and the
\* number of its items, and the level of the ratio of the employee sum to the
\* employer sum; for two critical employee items and one low employer item it
\* returns the weighted scores 0.5 and 6.0, the ratio 12.0, the counts 1 and 2
\* and the level absolute employer dominance.
C19_WeightedVariant ==
    (call = "calculate_power_balance_weighted")
    =>
    /\ ( /\ KnownSeverityItems(args.employer_items)
         /\ KnownSeverityItems(args.employee_items) )
       =>
       /\ result.employer_weighted_score
              = StatedWeightedSum(args.employer_items)
       /\ result.employee_weighted_score
              = StatedWeightedSum(args.employee_items)
    /\ result.employer_rights_count = Len(args.employer_items)
    /\ result.employee_obligations_count = Len(args.employee_items)
    /\ <<result.power_level, result.fairness_score>> \in TiersOf(ExactRatio)
    /\ ( /\ args.employee_items = <<CriticalItem, CriticalItem>>
         /\ args.employer_items = <<LowItem>> )
       =>
       /\ result.employer_weighted_score = 5
       /\ result.employee_weighted_score = 60
       /\ result.balance_ratio = 1200
       /\ result.employer_rights_count = 1
       /\ result.employee_obligations_count = 2
       /\ result.power_level = "gap jeoldaeuwi (geukdoro bulgongjeong)"

\* The call of the example has returned the ratio 12.0
C19_Witness ==
    /\ call = "calculate_power_balance_weighted"
    /\ args.employee_items = <<CriticalItem, CriticalItem>>
    /\ args.employer_items = <<LowItem>>
    /\ result.balance_ratio = 1200
    /\ result.employee_weighted_score = 60

\* The levels of the percentage convention, from very unfavorable to the
\* employer (0) to very unfavorable to the employee (4)
LevelRank ==
    [l \in {"gabege maeu bulli", "gabege bulli", "gyunhyeongjeok",
            "eurege bulli", "eurege maeu bulli"} |->
        CASE l = "gabege maeu bulli" -> 0
          [] l = "gabege bulli"      -> 1
          [] l = "gyunhyeongjeok"    -> 2
          [] l = "eurege bulli"      -> 3
          [] l = "eurege maeu bulli" -> 4]

\* Counts to compare a call with: their scores run from 0 to 100
ComparedScoreCounts == {<<e, MaxCount - e>> : e \in PercentCounts}

\* Counts to compare a call with: their ratios run from 0 to MaxEmployeeCount
ComparedRatioCounts == EmployerCounts \X EmployeeCounts

\* Ratio a is at least ratio b
RatioAtLeast(a, b) == a.num * b.den >= b.num * a.den

\* C20: the level is a monotonic step function of the score of the call
\* alone.  Of two calls of calculate_power_score, the one with the higher
\* balance_score never has the level nearer to very unfavorable to the
\* employer, and equal scores have equal levels; of two calls of
\* calculate_power_balance_from_counts, the one with the higher ratio never
\* has the higher fairness score, and equal ratios have equal levels.
C20_ClassificationIsMonotone ==
    /\ (call = "calculate_power_score") =>
           \A c \in ComparedScoreCounts :
               LET other == calculate_power_score(c[1], c[2])
               IN  /\ (other.balance_score >= result.balance_score)
                          => LevelRank[other.balance_level]
                                 >= LevelRank[result.balance_level]
                   /\ (other.balance_score <= result.balance_score)
                          => LevelRank[other.balance_level]
                                 <= LevelRank[result.balance_level]
    /\ (call = "calculate_power_balance_from_counts") =>
           \A c \in ComparedRatioCounts :
               LET other == _determine_power_level(CountRatio(c[1], c[2]))
                   ratio == CountRatio(c[1], c[2])
               IN  /\ RatioAtLeast(ratio, ExactRatio)
                          => /\ other[2] <= result.fairness_score
                             /\ RatioAtLeast(ExactRatio, ratio)
                                    => other[1] = result.power_level
                   /\ RatioAtLeast(ExactRatio, ratio)
                          => other[2] >= result.fairness_score

\* calculate_power_score(30, 40) has returned 43 and balanced; the counts
\* (49, 21) have the higher score 70 and the level very unfavorable to the
\* employee
C20_Witness ==
    /\ call = "calculate_power_score"
    /\ args.employee_obligations_count = 30
    /\ args.employer_rights_count = 40
    /\ result.balance_score = 43
    /\ result.balance_level = "gyunhyeongjeok"
    /\ <<49, 21>> \in ComparedScoreCounts
    /\ calculate_power_score(49, 21).balance_score = 70
    /\ calculate_power_score(49, 21).balance_level = "eurege maeu bulli"

---------------------------------------------------------------------------
(* Properties of the recommendations                                       *)

\* The message is the warning of too many obligations, or the warning of
\* too few employer items
IsTooManyWarning(message) == message[1] = "[gyeonggo] eurui uimuga "
IsTooFewWarning(message) == message[1] = "[gyeonggo] gabui uimuga "
IsWarning(message) == IsTooManyWarning(message) \/ IsTooFewWarning(message)

\* The positions of the messages of a list that satisfy P
Positions(messages, P(_)) == {i \in DOMAIN messages : P(messages[i])}

\* C21: in the recommendations of calculate_power_balance_from_counts the
\* warning of too many obligations stands exactly when employee_count > 30,
\* the warning to add mutual obligations exactly when employer_count < 5 and
\* employee_count > 10, each once and with the count in it; every message of
\* the ratio tier comes before them, and the first warning before the second.
C21_CountWarnings ==
    (call = "calculate_power_balance_from_counts")
    =>
    LET recs == result.recommendations
        many == Positions(recs, IsTooManyWarning)
        few  == Positions(recs, IsTooFewWarning)
        tier == DOMAIN recs \ (many \cup few)
    IN  /\ (many # {}) <=> (args.employee_count > 30)
        /\ (few # {}) <=> (args.employer_count < 5 /\ args.employee_count > 10)
        /\ Cardinality(many) <= 1
        /\ Cardinality(few) <= 1
        /\ \A i \in many : recs[i][2] = args.employee_count
        /\ \A i \in few : recs[i][2] = args.employer_count
        /\ \A t \in tier : \A w \in many \cup few : t < w
        /\ \A i \in many : \A j \in few : i < j

\* calculate_power_balance_from_counts(2, 31): four messages of the tier,
\* then both warnings, with 31 and 2 in them
C21_Witness ==
    /\ call = "calculate_power_balance_from_counts"
    /\ args.employer_count = 2
    /\ args.employee_count = 31
    /\ Len(result.recommendations) = 6
    /\ IsTooManyWarning(result.recommendations[5])
    /\ result.recommendations[5][2] = 31
    /\ IsTooFewWarning(result.recommendations[6])
    /\ result.recommendations[6][2] = 2

\* The ratio of the call is in the most favorable tier of the
\* recommendations, the one of line 257: not above 1.5
MostFavorableTier == ~Above(ExactRatio, 15)

\* One of the two count heuristics of lines 260 and 265 fires
CountHeuristicFires ==
    \/ result.employee_obligations_count > 30
    \/ /\ result.employer_rights_count < 5
       /\ result.employee_obligations_count > 10

\* C22: the recommendations of a ratio variant hold at least one message
\* whenever the ratio is not in the most favorable tier or a count heuristic
\* fires; they are empty only in the most favorable tier with no heuristic
\* firing.
C22_EmptyOnlyWhenMostFavorable ==
    RatioResult
    =>
    /\ (~MostFavorableTier \/ CountHeuristicFires)
           => Len(result.recommendations) >= 1
    /\ (result.recommendations = <<>>)
           => (MostFavorableTier /\ ~CountHeuristicFires)

\* calculate_power_balance_from_counts(5, 9): the ratio 1.8 is in the tier
\* of the review, no heuristic fires, and two messages are returned
C22_Witness ==
    /\ call = "calculate_power_balance_from_counts"
    /\ args.employer_count = 5
    /\ args.employee_count = 9
    /\ ~MostFavorableTier
    /\ ~CountHeuristicFires
    /\ Len(result.recommendations) = 2

IsUrgentMessage(message) ==
    message[1] = "[gingeup] i gyeyakseoneun geukdoro bulgongjeonghamnida."
IsSafeMessage(message) ==
    message[1] = "[anjeon] bigyojeok gyunhyeongjapin gyeyakseoimnida."

\* C24 as stated: in every result of a ratio variant the [gingeup] message
\* of the extremely unfair tier is among the recommendations exactly when the
\* power level is absolute employer dominance, and the [anjeon] message only
\* when the power level is balanced or employee favored.
C24_TierAgreesWithLevel ==
    RatioResult
    =>
    /\ (Positions(result.recommendations, IsUrgentMessage) # {})
           <=> (result.power_level = "gap jeoldaeuwi (geukdoro bulgongjeong)")
    /\ (Positions(result.recommendations, IsSafeMessage) # {})
           => result.power_level \in {"gyunhyeongjeok",
                                      "eul uwi (deumun gyeongu)"}

\* C27 as stated: in every result of a ratio variant the power_level and the
\* fairness_score are those of the tier that holds the returned
\* balance_ratio, the ratio rounded to two decimals.
C27_LevelOfReportedRatio ==
    RatioResult
    =>
    TiersOf([num |-> result.balance_ratio, den |-> 100])
        = {<<result.power_level, result.fairness_score>>}

---------------------------------------------------------------------------
(* Properties of the endpoint                                              *)

\* C25 as stated: the endpoint /analyze/power-balance answers a contract_text
\* of more than 5000 characters with status 400 and the detail of the text
\* being too long, and a text of at most 5000 characters with the analysis.
C25_LongTextRejectedWith400 ==
    (call = "api_analyze_power_balance")
    =>
    IF TextLen(args.contract_text) > 5000
    THEN /\ result.status_code = 400
         /\ result.detail = TEXT_TOO_LONG
    ELSE /\ result.status_code = 200
         /\ result.content = index_analyze_power_balance(args.contract_text)

---------------------------------------------------------------------------
(* Properties of the delegation                                            *)

\* C26: every call of analyze_power_balance and of
\* analyze_power_balance_chunked, with any text and any positive chunk size,
\* those above 1000 included, returns a result (the balance or the error of
\* the empty text) after at most two nested calls between the two functions.
C26_DelegationTerminates ==
    /\ (call = "analyze_power_balance") =>
           /\ AnalyzeDelegations(args.contract_text, 0) <= 2
           /\ DOMAIN result # {}
    /\ (call = "analyze_power_balance_chunked") =>
           /\ ChunkedDelegations(args.contract_text, args.chunk_size, 0) <= 2
           /\ DOMAIN result # {}

\* analyze_power_balance_chunked with chunk size 2000 on a text of 1002
\* characters: handed to analyze_power_balance, handed back with chunk size
\* 500, and analysed in chunks
C26_Witness ==
    /\ call = "analyze_power_balance_chunked"
    /\ args.chunk_size = LargeChunkSize
    /\ TextLen(args.contract_text) = 1002
    /\ ChunkedDelegations(args.contract_text, args.chunk_size, 0) = 2
    /\ result.processing_method = "chunked"

---------------------------------------------------------------------------
(* Determinism and the frame of the scoring calls                          *)

C28_InputUnchanged ==
    (call = "calculate_risk_score") =>
        /\ after.findings = args.findings
        /\ Len(result.findings_with_impact) = Len(args.findings)
        /\ \A i \in DOMAIN args.findings :
               LET finding == args.findings[i]
                   entry == result.findings_with_impact[i]
               IN  /\ DOMAIN entry = DOMAIN finding \cup {"impact_score"}
                   /\ \A k \in DOMAIN finding : entry[k] = finding[k]
                   /\ entry.impact_score = ContractImpact(finding)
        /\ result.total_score =
               Min(100, SumOver(DOMAIN args.findings,
                                [i \in DOMAIN args.findings |->
                                    result.findings_with_impact[i].impact_score]))

\* Two findings, the second without a severity, come back annotated and the
\* input is as passed.
C28_Witness ==
    /\ call = "calculate_risk_score"
    /\ Len(args.findings) = 2
    /\ "severity" \notin DOMAIN args.findings[2]
    /\ after.findings = args.findings
    /\ "impact_score" \notin DOMAIN after.findings[1]
    /\ result.findings_with_impact[1].impact_score = 45
====
